---- MODULE Spec2Model ----
\* man2qhelp.py: incremental conversion of man-page categories ("levels") into
\* HTML plus a Qt Help catalog.  The model follows do_levels / do_level / src
\* statement by statement; every loop iteration of do_level is split at the
\* three places where it looks at the source file (getmtime, exists, read).
\*
\* Representation.
\*   - A file name is the sequence of its dot-separated components:
\*     "a.2.gz" is <<"a", "2", "gz">>, "a.html" is <<"a", "html">>.
\*   - Modification times are integers counting half seconds.
\*   - A directory is "other" (some directory that is no category output
\*     directory) or a level l, standing for <cache root>/html.<l>.
\*   - An output file stands for the source it was rendered from; the text
\*     groff produced for it is not part of that state.  What lines 267-277
\*     do with one page's text (TitleFinder, the title replacement, the
\*     MAN_LINK substitution) is a specification of its own, SpecText, over
\*     texts that are sequences of tags and characters.
EXTENDS Integers, Sequences, FiniteSets, TLC

\* ---------------------------------------------------------------- bounds
\* Source modification times range over 0..MaxTime.
MaxTime == 3
\* At most MaxFiles source files lie in the source directories at the start.
MaxFiles == 2
\* A behaviour has at most MaxEvents runs and source changes, taken together;
\* a change between runs is made only when a run can still follow it.
MaxEvents == 3
\* A text groff wrote is any sequence of at most MaxTokens title tags, other
\* tags and letters, or at most MaxSegs pieces of text put one after another.
MaxTokens == 4
MaxSegs == 2

\* abs(...) < 1.0 of the staleness test, in half seconds.
StaleTolerance == 2

Times == 0..MaxTime
\* The clock while a run writes: later than every source time of the model.
WallClock == MaxTime + 1
Absent == -1

Levels == {"2", "3"}
LevelLists == {<<"2", "3">>, <<"3", "2">>}
\* Lists in which a category may come twice.
AnyLevelLists == {<<"2", "3">>, <<"2", "2">>}
DEFAULT_NAMESPACE == "man.linux.org.1.0"

\* ---------------------------------------------------------------- sources
F(l, n) == [level |-> l, name |-> n]

\* The files that may lie in /usr/share/man/man2 and man3, in the order
\* os.listdir yields those of them that are present.  The page of the last
\* file of man3 is named "g-1.h".
CoreSeq ==
  << F("2", <<"a", "2">>),
     F("2", <<"x", "2">>),
     F("2", <<"a", "2", "gz">>),
     F("2", <<"c", "2">>),
     F("2", <<"b", "2">>),
     F("2", <<"d", "2", "gz">>),
     F("2", <<"a", "2", "bz2">>),
     F("3", <<"e", "3">>),
     F("3", <<"g-1", "h", "3">>) >>
\* Files with the less usual texts: bytes that are no valid text, an alias
\* marker followed by more lines, an alias line of neither syntax, and a
\* second source of the page x.
ExtraSeq ==
  << F("2", <<"y", "2">>),
     F("2", <<"m", "2">>),
     F("2", <<"n", "2">>),
     F("2", <<"x", "2", "gz">>) >>
UniverseSeq == CoreSeq \o ExtraSeq

Core == {CoreSeq[i] : i \in 1..Len(CoreSeq)}
Extra == {ExtraSeq[i] : i \in 1..Len(ExtraSeq)}
Universe == Core \cup Extra

\* The decoded text of each file, by what src() and groff make of it:
\*   man  a page; ok tells whether groff exits 0 on it, pics how many
\*        images groff writes for it
\*   so   a text starting with ".so "; lines is its number of lines after
\*        strip(); form tells which of the two patterns of src() its line
\*        matches: "path" is ".so man<n>/<page>.<n>", "dotted" is
\*        ".so <page>.<n>", "other" is neither.
Page(ok, pics) == [type |-> "man", ok |-> ok, pics |-> pics]
Man(ok) == Page(ok, 0)
SoLines(lines, form, n, page) ==
  [type |-> "so", lines |-> lines, form |-> form, n |-> n, page |-> page]
So(form, n, page) == SoLines(1, form, n, page)

Content(f) ==
  CASE f.name = <<"x", "2">> -> Man(FALSE)
    [] f.name = <<"c", "2">> -> So("path", "2", "a")
    [] f.name = <<"d", "2", "gz">> -> So("dotted", "2", "a")
    [] f.name = <<"e", "3">> -> So("path", "2", "a")
    [] f.name = <<"b", "2">> -> Page(TRUE, 1)
    [] f.name = <<"g-1", "h", "3">> -> Page(TRUE, 1)
    [] f.name = <<"m", "2">> -> SoLines(2, "path", "2", "a")
    [] f.name = <<"n", "2">> -> So("other", "", "")
    [] OTHER -> Man(TRUE)

\* Whether the bytes of the file are valid text in the encoding open() uses.
ValidText(f) == f.name # <<"y", "2">>

\* ---------------------------------------------------------------- paths
Last(s) == s[Len(s)]
Front(s) == SubSeq(s, 1, Len(s) - 1)

\* os.path.splitext on a basename: (root, ext).
SplitextRoot(n) == IF Len(n) >= 2 THEN Front(n) ELSE n
SplitextExt(n) == IF Len(n) >= 2 THEN Last(n) ELSE ""

RECURSIVE remove_extensions(_, _)
remove_extensions(source, extensions) ==
  IF SplitextExt(source) \in extensions
  THEN remove_extensions(SplitextRoot(source), extensions)
  ELSE source

result_name(source_name, level) ==
  remove_extensions(source_name, {"bz2", level}) \o <<"html">>

EndsWith(n, ext) == Len(n) >= 2 /\ Last(n) = ext

\* The name src() returns for a path (lines 106-116).
SrcName(n) ==
  IF EndsWith(n, "bz2") \/ EndsWith(n, "gz")
  THEN SplitextRoot(SplitextRoot(n))
  ELSE SplitextRoot(n)

\* The reader lines 107-115 choose by the end of the path.
Strategy(n) ==
  IF EndsWith(n, "bz2") THEN "src_bzip"
  ELSE IF EndsWith(n, "gz") THEN "src_gzip"
  ELSE "src_raw"

\* decode("utf-8", errors="replace") of lines 77 and 81 replaces what is no
\* valid text; read() of line 86 decodes strictly and raises on it.
DecodeRaises(f) == Strategy(f.name) = "src_raw" /\ ~ValidText(f)

\* ---------------------------------------------------------------- src()
NoAlias == F("", <<>>)
SrcResult(kind, name, data, alias, msg) ==
  [kind |-> kind, name |-> name, data |-> data, alias |-> alias, msg |-> msg]
None(name, msg) == SrcResult("none", name, Man(FALSE), NoAlias, msg)

\* re.match of the two alias patterns and man_path (lines 122-128): the path
\* form yields man<n>/<page>, the dotted form man<n>/<page>.<n>.
alias_path(c) ==
  IF c.form = "path"
  THEN [level |-> c.n, stem |-> <<c.page>>]
  ELSE [level |-> c.n, stem |-> <<c.page, c.n>>]

\* glob.glob(alias_path + ".*") over the files present in srcs.
candidates(ap, srcs) ==
  {g \in Universe :
     /\ srcs[g] # Absent
     /\ g.level = ap.level
     /\ Len(g.name) > Len(ap.stem)
     /\ SubSeq(g.name, 1, Len(ap.stem)) = ap.stem}

\* src(path) from line 106 on, for a file that can be read.
src(f, srcs) ==
  LET c == Content(f)
      name == SrcName(f.name)
  IN IF c.type = "so"
     THEN IF c.lines = 1
          THEN IF c.form \notin {"path", "dotted"}
               THEN None(name, "not understood alias")
               ELSE LET cands == candidates(alias_path(c), srcs)
                    IN IF cands = {}
                       THEN None(name, "No matching alias source")
                       ELSE IF Cardinality(cands) > 1
                            THEN None(name, "Too many candidates")
                            ELSE SrcResult("alias", name, c, CHOOSE g \in cands : TRUE, "")
          ELSE None(name, "")
     ELSE SrcResult("page", name, c, NoAlias, "")

\* ---------------------------------------------------------------- do_level helpers
Keyword(keyword, target, is_alias) ==
  [keyword |-> keyword, target |-> target, is_alias |-> is_alias]

\* options.cache_path.join("html.%s" % level, base_name)
Target(level, base_name) == [dir |-> level, base |-> base_name]

Abs(x) == IF x < 0 THEN -x ELSE x

\* The test of line 245; files is the content of the working directory.
\* (UnchangedWrongPath: the test made on a path that never exists;
\* UnchangedLoose: the tolerance taken inclusive.)
UnchangedWrongPath(force, files, out_file, source_mtime) == FALSE
UnchangedLoose(force, files, out_file, source_mtime) ==
  /\ ~force
  /\ out_file \in DOMAIN files
  /\ Abs(files[out_file].mtime - source_mtime) <= StaleTolerance
Unchanged(force, files, out_file, source_mtime) ==
  /\ ~force
  /\ out_file \in DOMAIN files
  /\ Abs(files[out_file].mtime - source_mtime) < StaleTolerance

\* A file of an output directory: its modification time and, for the
\* properties, the source it was rendered from and the time that source had
\* when it was rendered.
OutFile(mtime, from, srcm) == [mtime |-> mtime, from |-> from, srcm |-> srcm]

\* os.utime(out_file, (source_mtime, source_mtime)) after open(out_file, "w").
\* (UtimeForgotten: the file keeps the time it was written at.)
UtimeForgotten(written, source_mtime) == written
Utime(written, source_mtime) == [written EXCEPT !.mtime = source_mtime]

Put(files, name, file) ==
  [n \in DOMAIN files \cup {name} |-> IF n = name THEN file ELSE files[n]]
Drop(files, names) == [n \in DOMAIN files \ names |-> files[n]]

Range(s) == {s[i] : i \in 1..Len(s)}

\* level_files of line 285.
level_files(kws) == {kw.target.base : kw \in {k \in Range(kws) : ~k.is_alias}}

\* os.path.isfile(file) of line 287, resolved against the working directory.
isfile(file, dir, outdirs, cwdFiles) ==
  IF dir \in Levels THEN file \in DOMAIN outdirs[dir] ELSE file \in cwdFiles

\* The files the loop of lines 286-290 removes from out_dir.
\* (GcRemovesButLast: the Keyword registered last does not count.)
GcRemovesButLast(kws, files, dir, outdirs, cwdFiles) ==
  {file \in DOMAIN files :
     isfile(file, dir, outdirs, cwdFiles) /\ file \notin level_files(Front(kws))}
GcRemoves(kws, files, dir, outdirs, cwdFiles) ==
  {file \in DOMAIN files :
     isfile(file, dir, outdirs, cwdFiles) /\ file \notin level_files(kws)}

\* ---------------------------------------------------------------- images
\* The name of an image file is the sequence of its characters.
Chars(part) ==
  CASE part = "gz" -> <<"g", "z">>
    [] part = "bz2" -> <<"b", "z", "2">>
    [] part = "png" -> <<"p", "n", "g">>
    [] part = "g-1" -> <<"g", "-", "1">>
    [] OTHER -> <<part>>

RECURSIVE NameChars(_)
NameChars(n) ==
  IF n = <<>> THEN <<>>
  ELSE IF Len(n) = 1 THEN Chars(n[1])
  ELSE Chars(n[1]) \o <<".">> \o NameChars(Tail(n))

Digit == {"0", "1", "2", "3", "4", "5", "6", "7", "8", "9"}
Letter == {"a", "b", "c", "d", "e", "g", "h", "m", "n", "p", "x", "y", "z", "_"}
WordChar == Letter \cup Digit

\* The image groff writes as number i of a page: -I<name>- makes it
\* <name>-<i>.png in the images directory.
Decimal == <<"1", "2", "3", "4", "5", "6", "7", "8", "9">>
image_name(name, i) ==
  NameChars(name) \o <<"-", Decimal[i], ".">> \o Chars("png")

\* IMAGE_NAME_RE.match(file): whether (.+?)-\d+\.\w+ matches a prefix of
\* file with the keyword group ending at position k.
ImageMatchAt(file, k) ==
  /\ k >= 1
  /\ k + 1 <= Len(file)
  /\ file[k + 1] = "-"
  /\ \E j \in (k + 2)..Len(file) :
       /\ \A d \in (k + 2)..j : file[d] \in Digit
       /\ j + 2 <= Len(file)
       /\ file[j + 1] = "."
       /\ file[j + 2] \in WordChar
ImageMatches(file) == \E k \in 1..Len(file) : ImageMatchAt(file, k)
\* match.group(1): the lazy group takes the shortest keyword that matches.
ImageKeyword(file) ==
  LET k == CHOOSE i \in 1..Len(file) :
             ImageMatchAt(file, i) /\ \A h \in 1..(i - 1) : ~ImageMatchAt(file, h)
  IN SubSeq(file, 1, k)

\* keywords of line 292.
keywords(kws) == {NameChars(kw.keyword) : kw \in {k \in Range(kws) : ~k.is_alias}}

\* The files the loop of lines 293-301 removes from images_dir.
ImageGcRemoves(kws, imgs) ==
  {file \in imgs : ~(ImageMatches(file) /\ ImageKeyword(file) \in keywords(kws))}

\* The images groff leaves for a page it has converted.
GroffImages(name, data) == {image_name(name, i) : i \in 1..data.pics}

\* os.listdir(in_dir)
listdir(level, srcs) ==
  SelectSeq(UniverseSeq, LAMBDA f : f.level = level /\ srcs[f] # Absent)

\* Where the for loop of line 223 stands after the file at index i.
\* (AfterFileEarly: the loop ends one file early.)
AfterFileEarly(i, files) == IF i + 1 >= Len(files) THEN "gc" ELSE "mtime"
AfterFile(i, files) == IF i >= Len(files) THEN "gc" ELSE "mtime"

\* has_errors |= errors (line 316)
\* (OrFlagLast: the flag assigned instead of or-ed; OrFlagAnd: and-ed.)
OrFlagLast(run_flag, level_flag) == level_flag
OrFlagAnd(run_flag, level_flag) == run_flag /\ level_flag
OrFlag(run_flag, level_flag) == run_flag \/ level_flag

\* kws[level] = lkw on the OrderedDict of line 307: a level met again keeps
\* its place and gets the new list.
SetKws(d, level, lkw) ==
  IF \E i \in 1..Len(d) : d[i].level = level
  THEN [i \in 1..Len(d) |-> IF d[i].level = level THEN [level |-> level, keywords |-> lkw] ELSE d[i]]
  ELSE Append(d, [level |-> level, keywords |-> lkw])

\* The catalog of lines 320-331.
\* (SectionNoAlias: the alias Keywords left out of a section.)
SectionNoAlias(e) ==
  LET ks == SelectSeq(e.keywords, LAMBDA k : ~k.is_alias)
  IN [filter_category |-> <<"man", e.level>>,
      keywords |-> [i \in 1..Len(ks) |-> [name |-> ks[i].keyword, ref |-> ks[i].target]],
      files |-> << <<"html", e.level, "*.html">>, <<"html", e.level, "images", "*">> >>]
Section(e) ==
  [filter_category |-> <<"man", e.level>>,
   keywords |-> [i \in 1..Len(e.keywords) |->
                   [name |-> e.keywords[i].keyword, ref |-> e.keywords[i].target]],
   files |-> << <<"html", e.level, "*.html">>, <<"html", e.level, "images", "*">> >>]
Catalog(namespace, d) ==
  [namespace |-> namespace, sections |-> [i \in 1..Len(d) |-> Section(d[i])]]
NoCatalog == [namespace |-> "", sections |-> <<>>]

\* ---------------------------------------------------------------- state
VARIABLES
  sources,         \* source file -> modification time, or Absent
  out,             \* level -> the files of <cache root>/html.<level>
  images,          \* level -> the files of <cache root>/html.<level>/images
  catalog,         \* the catalog file in the cache root
  origDir,         \* the directory the program is started in
  cwdFiles,        \* the regular files of that directory, when it is "other"
  options,         \* Options of the run: force, sources, qhp_namespace
  pc,              \* where the run stands
  cwd,             \* the working directory of the process
  li,              \* do_levels: index of the level to do next
  level,           \* do_level: its level
  files,           \* do_level: the listing, os.listdir(in_dir)
  idx,             \* do_level: index of the listed file being handled
  source_mtime,    \* do_level: source_mtime of the file being handled
  level_keywords,  \* do_level: level_keywords
  has_errors,      \* do_level: has_errors
  kws,             \* do_levels: kws
  run_has_errors,  \* do_levels: has_errors
  log,             \* what the current level printed: <<event, name>>
  summary,         \* the last line do_levels printed
  runNo,           \* number of runs started
  changes,         \* number of changes made to the sources
  startChanges,    \* the value of changes when the last run started
  invoked,         \* groff invocations of this run
  failed,          \* groff failures of this run
  catalogWrites,   \* catalog writes of this run
  prev,            \* the cache, and what the run did, when the previous run ended
  \* The text of one page on its way through lines 267-274:
  tpc,             \* where that stands: "off" while no text is followed
  html_data,       \* html_data
  pos,             \* the place feed() or sub() has come to in html_data
  in_title,        \* TitleFinder._in_title
  title,           \* TitleFinder._title
  warnings,        \* how often TitleFinder printed "Multiple title-elements"
  cross_references,\* do_level: cross_references
  result,          \* what sub() has put together so far
  stdout,          \* html_data as groff wrote it
  retitled         \* html_data as line 271 left it

mainVars == <<sources, out, images, catalog, origDir, cwdFiles, options, pc, cwd, li,
              level, files, idx, source_mtime, level_keywords, has_errors, kws,
              run_has_errors, log, summary, runNo, changes, startChanges, invoked,
              failed, catalogWrites, prev>>
textVars == <<tpc, html_data, pos, in_title, title, warnings, cross_references,
              result, stdout, retitled>>
vars == <<mainVars, textVars>>

progVars == <<options, pc, cwd, li, level, files, idx, source_mtime,
              level_keywords, has_errors, kws, run_has_errors, log, summary>>
cacheVars == <<out, images, catalog>>
envVars == <<origDir, cwdFiles>>
histVars == <<runNo, invoked, failed, catalogWrites, prev>>

Present(srcs) == {f \in Universe : srcs[f] # Absent}
NoOptions == [force |-> FALSE, sources |-> <<>>, qhp_namespace |-> DEFAULT_NAMESPACE]
NoPrev == [out |-> [l \in Levels |-> <<>>], images |-> [l \in Levels |-> {}],
           catalog |-> NoCatalog, exit |-> "none", failed |-> 0, changes |-> 0]
B_HTML == <<"b", "html">>

\* No text is followed.
TextOff ==
  /\ tpc = "off"
  /\ html_data = <<>>
  /\ pos = 0
  /\ in_title = FALSE
  /\ title = <<>>
  /\ warnings = 0
  /\ cross_references = <<>>
  /\ result = <<>>
  /\ stdout = <<>>
  /\ retitled = <<>>

\* The program before its first run, in the directory it is started in.
ProgInit ==
  /\ out = [l \in Levels |-> <<>>]
  /\ images = [l \in Levels |-> {}]
  /\ catalog = NoCatalog
  /\ cwdFiles = IF origDir = "other" THEN {B_HTML} ELSE {}
  /\ pc = "idle"
  /\ cwd = origDir
  /\ li = 1
  /\ files = <<>>
  /\ idx = 0
  /\ source_mtime = 0
  /\ level_keywords = <<>>
  /\ has_errors = FALSE
  /\ kws = <<>>
  /\ run_has_errors = FALSE
  /\ log = <<>>
  /\ summary = ""
  /\ runNo = 0
  /\ changes = 0
  /\ startChanges = 0
  /\ invoked = 0
  /\ failed = 0
  /\ catalogWrites = 0
  /\ prev = NoPrev

\* Source directories with the usual files, two different categories asked for.
Init ==
  /\ sources \in [Universe -> {Absent, 0}]
  /\ Present(sources) \subseteq Core
  /\ Cardinality(Present(sources)) <= MaxFiles
  /\ origDir \in {"other", "2"}
  /\ options \in {[NoOptions EXCEPT !.sources = ls, !.force = fo] :
                     ls \in LevelLists, fo \in BOOLEAN}
  /\ level = ""
  /\ ProgInit
  /\ TextOff

\* Source directories that hold the less usual files, beside a page, a
\* failing page and an alias of category 2 and a page of category 3; a
\* category may be asked for twice; the program is started in html.2, where
\* the test of line 287 sees the files of category 2.
AnyFiles ==
  Extra \cup {F("2", <<"a", "2">>), F("2", <<"x", "2">>), F("2", <<"c", "2">>),
              F("3", <<"g-1", "h", "3">>)}
InitAny ==
  /\ sources \in [Universe -> {Absent, 0}]
  /\ Present(sources) \subseteq AnyFiles
  /\ Cardinality(Present(sources)) <= MaxFiles
  /\ origDir = "2"
  /\ options \in {[NoOptions EXCEPT !.sources = ls, !.force = fo] :
                     ls \in AnyLevelLists, fo \in BOOLEAN}
  /\ level = ""
  /\ ProgInit
  /\ TextOff

\* ---------------------------------------------------------------- the program
Stopped == pc \in {"idle", "done", "aborted"}
Event(ev, name) == [ev |-> ev, name |-> name]

\* main(): a new process with the options of its command line.
StartRun ==
  /\ Stopped
  /\ runNo + changes < MaxEvents
  /\ pc' = "level"
  /\ cwd' = origDir
  /\ li' = 1
  /\ kws' = <<>>
  /\ run_has_errors' = FALSE
  /\ log' = <<>>
  /\ summary' = ""
  /\ runNo' = runNo + 1
  /\ invoked' = 0
  /\ failed' = 0
  /\ catalogWrites' = 0
  /\ prev' = [out |-> out, images |-> images, catalog |-> catalog, exit |-> pc,
              failed |-> failed, changes |-> startChanges]
  /\ startChanges' = changes
  /\ UNCHANGED <<sources, cacheVars, envVars, textVars, options, level, files, idx,
                 source_mtime, level_keywords, has_errors, changes>>

\* do_levels line 310-312 and do_level lines 207-223: enter the level.
BeginLevel ==
  /\ pc = "level"
  /\ level' = options.sources[li]
  /\ level_keywords' = <<>>
  /\ has_errors' = FALSE
  /\ cwd' = level'
  /\ files' = listdir(level', sources)
  /\ idx' = 1
  /\ pc' = AfterFile(0, files')
  /\ log' = <<>>
  /\ UNCHANGED <<sources, cacheVars, envVars, textVars, options, li, source_mtime, kws,
                 run_has_errors, summary, changes, startChanges, histVars>>

\* An exception leaves do_level, do_levels and main: the process ends.
Abort ==
  /\ pc' = "aborted"
  /\ UNCHANGED <<sources, cacheVars, envVars, textVars, options, cwd, li, level, files, idx,
                 source_mtime, level_keywords, has_errors, kws, run_has_errors,
                 log, summary, changes, startChanges, histVars>>

\* Lines 224-225: os.path.getmtime raises when the file is gone.
GetMtime ==
  /\ pc = "mtime"
  /\ IF sources[files[idx]] = Absent
     THEN Abort
     ELSE /\ source_mtime' = sources[files[idx]]
          /\ pc' = "exists"
          /\ UNCHANGED <<sources, cacheVars, envVars, textVars, options, cwd, li, level,
                         files, idx, level_keywords, has_errors, kws,
                         run_has_errors, log, summary, changes, startChanges, histVars>>

\* The step to the next file of the listing.
Continue(event) ==
  /\ log' = Append(log, event)
  /\ idx' = idx + 1
  /\ pc' = AfterFile(idx, files)

\* Lines 227-229 with 102-104: src() finds the file gone.
SrcExists ==
  /\ pc = "exists"
  /\ IF sources[files[idx]] = Absent
     THEN /\ Continue(Event("Does not exist", files[idx].name))
          /\ UNCHANGED <<sources, cacheVars, envVars, textVars, options, cwd, li, level,
                         files, source_mtime, level_keywords, has_errors, kws,
                         run_has_errors, summary, changes, startChanges, histVars>>
     ELSE /\ pc' = "read"
          /\ UNCHANGED <<sources, cacheVars, envVars, textVars, options, cwd, li, level,
                         files, idx, source_mtime, level_keywords, has_errors, kws,
                         run_has_errors, log, summary, changes, startChanges, histVars>>

\* Lines 106-146 and 230-280: read the file, then alias, skip or convert.
\* A file that is gone, or one src_raw cannot decode, raises.
ReadAndConvert ==
  /\ pc = "read"
  /\ IF sources[files[idx]] = Absent \/ DecodeRaises(files[idx])
     THEN Abort
     ELSE LET f == files[idx]
              r == src(f, sources)
              alias_base == result_name(r.alias.name, level)
              base_name == result_name(r.name, level)
              target == Target(level, base_name)
              written == OutFile(WallClock, f, sources[f])
          IN /\ CASE r.kind = "none" ->
                       /\ Continue(Event(r.msg, r.name))
                       /\ UNCHANGED <<out, images, level_keywords, has_errors, invoked, failed>>
                  [] r.kind = "alias" ->
                       /\ level_keywords' =
                            Append(level_keywords,
                                   Keyword(r.name, Target(level, alias_base), TRUE))
                       /\ Continue(Event("alias", r.name))
                       /\ UNCHANGED <<out, images, has_errors, invoked, failed>>
                  [] OTHER ->
                       /\ level_keywords' =
                            Append(level_keywords, Keyword(r.name, target, FALSE))
                       /\ IF Unchanged(options.force, out[cwd], base_name, source_mtime)
                          THEN /\ Continue(Event("UNCHANGED", r.name))
                               /\ UNCHANGED <<out, images, has_errors, invoked, failed>>
                          ELSE /\ invoked' = invoked + 1
                               /\ IF r.data.ok
                                  THEN /\ out' = [out EXCEPT ![cwd] =
                                                    Put(@, base_name, Utime(written, source_mtime))]
                                       /\ images' = [images EXCEPT ![cwd] =
                                                       @ \cup GroffImages(r.name, r.data)]
                                       /\ Continue(Event("keyword", r.name))
                                       /\ UNCHANGED <<has_errors, failed>>
                                  ELSE /\ has_errors' = TRUE
                                       /\ failed' = failed + 1
                                       /\ Continue(Event("error running groff", r.name))
                                       /\ UNCHANGED <<out, images>>
             /\ UNCHANGED <<sources, catalog, envVars, textVars, options, cwd, li, level, files,
                            source_mtime, kws, run_has_errors, summary, changes,
                            startChanges, runNo, catalogWrites, prev>>

\* Lines 283-303: restore the working directory, remove the files and the
\* images the level does not account for, return.
EndLevel ==
  /\ pc = "gc"
  /\ cwd' = origDir
  /\ out' = [out EXCEPT ![level] =
               Drop(@, GcRemoves(level_keywords, @, origDir, out, cwdFiles))]
  /\ images' = [images EXCEPT ![level] = @ \ ImageGcRemoves(level_keywords, @)]
  /\ pc' = "ret"
  /\ UNCHANGED <<sources, catalog, envVars, textVars, options, li, level, files, idx,
                 source_mtime, level_keywords, has_errors, kws, run_has_errors,
                 log, summary, changes, startChanges, histVars>>

\* do_levels lines 313-316.
Aggregate ==
  /\ pc = "ret"
  /\ kws' = SetKws(kws, level, level_keywords)
  /\ run_has_errors' = OrFlag(run_has_errors, has_errors)
  /\ li' = li + 1
  /\ pc' = IF li + 1 > Len(options.sources) THEN "catalog" ELSE "level"
  /\ UNCHANGED <<sources, cacheVars, envVars, textVars, options, cwd, level, files, idx,
                 source_mtime, level_keywords, has_errors, log, summary, changes,
                 startChanges, histVars>>

\* do_levels lines 319-336.
WriteCatalog ==
  /\ pc = "catalog"
  /\ catalog' = Catalog(options.qhp_namespace, kws)
  /\ catalogWrites' = catalogWrites + 1
  /\ summary' = IF run_has_errors THEN "Processing had errors" ELSE "use qhelpgenerator"
  /\ pc' = "done"
  /\ UNCHANGED <<sources, out, images, envVars, textVars, options, cwd, li, level, files,
                 idx, source_mtime, level_keywords, has_errors, kws, run_has_errors,
                 log, changes, startChanges, runNo, invoked, failed, prev>>

\* ---------------------------------------------------------------- the environment
\* The pages rendered into the same output file as f.
OutputOf(f) == result_name(SrcName(f.name), f.level)
Twins(f, srcs) ==
  {g \in Present(srcs) \ {f} :
     g.level = f.level /\ Content(g).type = "man" /\ OutputOf(g) = OutputOf(f)}

\* A source gets another modification time while no run is in progress.
\* Before the first run only the difference between the times of sources
\* that share an output file matters, so only such a source is touched.
Touch ==
  /\ Stopped
  /\ runNo + changes + 1 < MaxEvents
  /\ \E f \in Present(sources) :
       /\ runNo = 0 => Content(f).type = "man" /\ Twins(f, sources) # {}
       /\ \E t \in Times \ {sources[f]} : sources' = [sources EXCEPT ![f] = t]
  /\ changes' = changes + 1
  /\ UNCHANGED <<cacheVars, envVars, textVars, progVars, startChanges, histVars>>

\* A source is removed: between two runs, or while do_level is about to
\* look at it.
Remove ==
  /\ \E f \in Present(sources) :
       /\ \/ pc \in {"done", "aborted"} /\ runNo + changes + 1 < MaxEvents
          \/ pc \in {"mtime", "exists", "read"} /\ f = files[idx]
                                              /\ runNo + changes < MaxEvents
       /\ sources' = [sources EXCEPT ![f] = Absent]
  /\ changes' = changes + 1
  /\ UNCHANGED <<cacheVars, envVars, textVars, progVars, startChanges, histVars>>

Next ==
  \/ StartRun
  \/ BeginLevel
  \/ GetMtime
  \/ SrcExists
  \/ ReadAndConvert
  \/ EndLevel
  \/ Aggregate
  \/ WriteCatalog
  \/ Touch
  \/ Remove

Spec == Init /\ [][Next]_vars
SpecAny == InitAny /\ [][Next]_vars

\* ---------------------------------------------------------------- the text of a page
\* A text is the sequence of its tags and characters.
TITLE == "<title>"
TITLE_END == "</title>"
Tags == {TITLE, TITLE_END, "<p>", "<b>", "</b>"}
\* \w and \d of MAN_LINK among the characters of the texts.
WordTok == {"X", "x", "p", "m", "a", "n", "2", "3"}
DigitTok == {"2", "3"}
\* str.lower()
Lower(c) == IF c = "X" THEN "x" ELSE c
LowerAll(t) == [i \in 1..Len(t) |-> Lower(t[i])]

Piece ==
  { <<TITLE, "X", TITLE_END>>,
    <<"X">>,
    <<"<b>", "x", "</b>", "(", "2", ")">>,
    <<"<b>", "x", "2", "</b>", "(", "2", "p", ")">>,
    <<"<b>", "</b>", "(", "2", ")">>,
    <<"<b>", "x", "</b>", "(", "p", ")">>,
    <<"<b>", "x", "</b>", " ", "(", "2", ")">>,
    <<"<b>", "x", "</b>", "(", "2">> }
RECURSIVE Flatten(_)
Flatten(ss) == IF ss = <<>> THEN <<>> ELSE Head(ss) \o Flatten(Tail(ss))
Texts ==
  UNION {[1..n -> {TITLE, TITLE_END, "<p>", "X"}] : n \in 0..MaxTokens}
    \cup {Flatten(ss) : ss \in UNION {[1..n -> Piece] : n \in 0..MaxSegs}}

Tok(t, i) == IF i \in 1..Len(t) THEN t[i] ELSE ""

\* title_tag()
title_tag(text) == <<TITLE>> \o text \o <<TITLE_END>>

\* str.replace(old, new) from position i on: every occurrence, left to right.
StartsAt(t, i, old) == i + Len(old) - 1 <= Len(t) /\ SubSeq(t, i, i + Len(old) - 1) = old
RECURSIVE Replace(_, _, _, _)
Replace(t, i, old, new) ==
  IF i > Len(t) THEN <<>>
  ELSE IF StartsAt(t, i, old) THEN new \o Replace(t, i + Len(old), old, new)
  ELSE <<t[i]>> \o Replace(t, i + 1, old, new)

\* The title line 271 puts in.
NewTitle(text, l) == LowerAll(text) \o <<" ", "|", " ", "m", "a", "n", l>>

\* The last place of the longest run of characters of set that starts at i;
\* i - 1 when there is none.
RECURSIVE Run(_, _, _)
Run(t, i, set) == IF Tok(t, i) \in set THEN Run(t, i + 1, set) ELSE i - 1

\* MAN_LINK matched at place i: <b>(\w+)</b>\((\d+p?)\)
NoMatch == [end |-> 0, name |-> <<>>, level |-> <<>>]
MAN_LINK(t, i) ==
  LET j == Run(t, i + 1, WordTok)
      k == Run(t, j + 3, DigitTok)
      q == IF Tok(t, k + 1) = "p" THEN k + 1 ELSE k
  IN IF /\ Tok(t, i) = "<b>" /\ j >= i + 1
        /\ Tok(t, j + 1) = "</b>" /\ Tok(t, j + 2) = "("
        /\ k >= j + 3 /\ Tok(t, q + 1) = ")"
     THEN [end |-> q + 1, name |-> SubSeq(t, i + 1, j), level |-> SubSeq(t, j + 3, q)]
     ELSE NoMatch

\* link_replacer: what fn appends to ref_list and what it returns.
\* (RefPairSwapped: the pair put the other way round.)
RefPairSwapped(l, name) == <<name, l>>
RefPair(l, name) == <<l, name>>
A_HREF == "<a href=\"../html."
A_END == "</a>"
Link(l, name, matched) ==
  <<A_HREF>> \o l \o <<"/">> \o name \o <<".html\">">> \o matched \o <<A_END>>

\* groff has written some text for a page of category level (line 258).
InitText ==
  /\ sources = [f \in Universe |-> Absent]
  /\ origDir = "other"
  /\ options = NoOptions
  /\ level \in Levels
  /\ ProgInit
  /\ stdout \in Texts
  /\ html_data = stdout
  /\ tpc = "feed"
  /\ pos = 1
  /\ in_title = FALSE
  /\ title = <<>>
  /\ warnings = 0
  /\ cross_references = <<>>
  /\ result = <<>>
  /\ retitled = <<>>

\* parser.feed(html_data), one tag or character at a time: handle_starttag,
\* handle_endtag, handle_data of TitleFinder.
Feed ==
  /\ tpc = "feed"
  /\ pos <= Len(html_data)
  /\ LET c == html_data[pos]
     IN /\ in_title' = IF c = TITLE /\ ~in_title /\ Len(title) = 0 THEN TRUE
                       ELSE IF c = TITLE_END /\ in_title THEN FALSE
                       ELSE in_title
        /\ warnings' = IF c = TITLE /\ ~in_title /\ Len(title) # 0
                       THEN warnings + 1 ELSE warnings
        /\ title' = IF c \notin Tags /\ in_title THEN Append(title, c) ELSE title
  /\ pos' = pos + 1
  /\ UNCHANGED <<mainVars, tpc, html_data, cross_references, result, stdout, retitled>>

\* Line 271.
ReplaceTitle ==
  /\ tpc = "feed"
  /\ pos > Len(html_data)
  /\ html_data' = Replace(html_data, 1, title_tag(title), title_tag(NewTitle(title, level)))
  /\ retitled' = html_data'
  /\ tpc' = "sub"
  /\ pos' = 1
  /\ UNCHANGED <<mainVars, in_title, title, warnings, cross_references, result, stdout>>

\* Line 274, MAN_LINK.sub: at each place either a match, replaced by what
\* fn returns, or one character taken over.
Sub ==
  /\ tpc = "sub"
  /\ pos <= Len(html_data)
  /\ LET m == MAN_LINK(html_data, pos)
     IN IF m.end # 0
        THEN /\ cross_references' = Append(cross_references, RefPair(m.level, m.name))
             /\ result' = result \o Link(m.level, m.name, SubSeq(html_data, pos, m.end))
             /\ pos' = m.end + 1
        ELSE /\ result' = Append(result, html_data[pos])
             /\ pos' = pos + 1
             /\ UNCHANGED cross_references
  /\ UNCHANGED <<mainVars, tpc, html_data, in_title, title, warnings, stdout, retitled>>

\* Line 274, the assignment, and the write of lines 276-277.
Write ==
  /\ tpc = "sub"
  /\ pos > Len(html_data)
  /\ html_data' = result
  /\ tpc' = "written"
  /\ UNCHANGED <<mainVars, pos, in_title, title, warnings, cross_references, result,
                 stdout, retitled>>

NextText ==
  \/ Feed
  \/ ReplaceTitle
  \/ Sub
  \/ Write

SpecText == InitText /\ [][NextText]_vars

\* ---------------------------------------------------------------- properties
\* The step ReadAndConvert takes from a file it could read.
Handled == pc = "read" /\ pc' \in {"mtime", "gc"}
\* The file the loop of do_level stands at.
Cur == files[idx]
LevelsOf(d) == [i \in 1..Len(d) |-> d[i].level]
\* The categories of the catalog's sections, in order.
CatalogLevels(c) == [i \in 1..Len(c.sections) |-> c.sections[i].filter_category[2]]
Successes(events) ==
  SelectSeq(events, LAMBDA e : e.ev \in {"keyword", "UNCHANGED", "alias"})

\* C1 (as claimed). When do_level has returned for a category, every file of
\* its output directory is the output of a non-alias Keyword of this run, and
\* every such output that was there when the run started is still there.
C1_OrphanCleanup ==
  pc = "ret" =>
    /\ \A n \in DOMAIN out[level] : n \in level_files(level_keywords)
    /\ \A n \in DOMAIN prev.out[level] :
         n \in level_files(level_keywords) => n \in DOMAIN out[level]

\* C2. For a page that is no alias, groff is invoked if and only if force is
\* set, or the output file does not exist, or the output's time and the
\* source's time differ by at least 1.0 s; otherwise the page is reported
\* UNCHANGED and nothing is written.
C2_StalenessGate ==
  [][(Handled /\ src(Cur, sources).kind = "page") =>
       LET base == result_name(SrcName(Cur.name), level)
           regenerate ==
             \/ options.force
             \/ base \notin DOMAIN out[cwd]
             \/ Abs(out[cwd][base].mtime - source_mtime) >= StaleTolerance
       IN /\ invoked' = invoked + 1 <=> regenerate
          /\ ~regenerate => /\ invoked' = invoked
                            /\ out' = out
                            /\ log'[Len(log')] = Event("UNCHANGED", SrcName(Cur.name))]_vars

\* C2, its case: without force, a page whose output of the previous run is
\* exactly 1.0 s away from its source has been rendered again.
C2_Witness ==
  /\ pc \in {"mtime", "gc"}
  /\ ~options.force
  /\ idx > 1
  /\ log # <<>>
  /\ log[Len(log)].ev = "keyword"
  /\ LET f == files[idx - 1]
     IN /\ sources[f] # Absent
        /\ Twins(f, sources) = {}
        /\ OutputOf(f) \in DOMAIN prev.out[level]
        /\ Abs(prev.out[level][OutputOf(f)].mtime - sources[f]) = StaleTolerance

\* Two consecutive completed runs of the same command line without force,
\* with no source changed since the first of them started.
SecondRunDone ==
  /\ pc = "done"
  /\ runNo >= 2
  /\ prev.exit = "done"
  /\ changes = prev.changes
  /\ ~options.force
SameAsBefore ==
  out = prev.out /\ images = prev.images /\ catalog = prev.catalog /\ invoked = 0
\* No two pages of a category that share an output file have source times
\* 1.0 s or more apart.
NoStaleTwins ==
  \A f \in Present(sources) :
    Content(f).type = "man" =>
      \A g \in Twins(f, sources) : Abs(sources[f] - sources[g]) < StaleTolerance

C4_ErrorIsolation ==
  /\ [][(Handled /\ invoked' = invoked + 1 /\ ~Content(Cur).ok) =>
          /\ has_errors'
          /\ out' = out
          /\ files' = files
          /\ idx' = idx + 1
          /\ pc' = "mtime" <=> idx < Len(files)]_vars
  /\ [](pc = "ret" /\ has_errors =>
          \A f \in Range(files) :
            sources[f] # Absent /\ Content(f).type = "man" /\ Content(f).ok =>
              /\ OutputOf(f) \in DOMAIN out[level]
              /\ Keyword(SrcName(f.name), Target(level, OutputOf(f)), FALSE)
                   \in Range(level_keywords))
  /\ [](pc = "done" /\ failed > 0 =>
          /\ run_has_errors
          /\ CatalogLevels(catalog) = options.sources
          /\ summary = "Processing had errors")

\* C4, its case: a run has ended in which a page of the first category failed
\* while another page of that category was rendered.
C4_Witness ==
  /\ pc = "done"
  /\ failed > 0
  /\ options.sources = <<"2", "3">>
  /\ DOMAIN out["2"] # {}
  /\ \E f \in Present(sources) : f.level = "2" /\ ~Content(f).ok

\* C5 (as claimed). A one-line alias directive of either form with exactly one
\* file matching its stem registers exactly one alias Keyword, whose target
\* is the output name of the target page in the target's own category
\* directory; with no or several matching files no Keyword is registered.
C5_AliasResolution ==
  [][(Handled /\ Content(Cur).type = "so" /\ Content(Cur).lines = 1
        /\ Content(Cur).form \in {"path", "dotted"}) =>
       LET cands == candidates(alias_path(Content(Cur)), sources)
           g == CHOOSE c \in cands : TRUE
       IN IF Cardinality(cands) = 1
          THEN level_keywords' =
                 Append(level_keywords,
                        Keyword(SrcName(Cur.name), Target(g.level, OutputOf(g)), TRUE))
          ELSE level_keywords' = level_keywords]_vars

\* C6 (as claimed). The Keywords do_level returns are, in order, one for each
\* source that was rendered, skipped as unchanged or resolved as an alias,
\* and none for any other source.
C6_KeywordPerSuccess ==
  pc = "ret" =>
    [i \in 1..Len(level_keywords) |-> level_keywords[i].keyword]
      = [i \in 1..Len(Successes(log)) |-> Successes(log)[i].name]

\* C7. When no run is in progress, every output file has the modification
\* time its source had when the file was rendered, not the time of rendering.
C7_CacheKey ==
  Stopped =>
    \A l \in Levels : \A n \in DOMAIN out[l] : out[l][n].mtime = out[l][n].srcm

\* C7, its case: a run has ended, and an output file shared by two sources
\* with different times has the time of the one it was rendered from.
C7_Witness ==
  /\ pc = "done"
  /\ \E l \in Levels : \E n \in DOMAIN out[l] :
       /\ out[l][n].mtime = sources[out[l][n].from]
       /\ \E g \in Twins(out[l][n].from, sources) : sources[g] # out[l][n].mtime

\* C8. Categories are entered one at a time in the order the caller gave;
\* files leave an output directory only in the garbage collection of its
\* category, which runs when every listed source has been handled; and the
\* catalog is written once, after the last category has returned, with or
\* without conversion failures.
InLevel == pc \in {"mtime", "exists", "read", "gc", "ret"}
C8_RunOrdering ==
  /\ [](InLevel => /\ level = options.sources[li]
                   /\ LevelsOf(kws) = SubSeq(options.sources, 1, li - 1))
  /\ [](pc \in {"gc", "ret"} => Len(log) = Len(files))
  /\ [][(\E l \in Levels : ~(DOMAIN out[l] \subseteq DOMAIN out'[l])) =>
          pc = "gc" /\ Len(log) = Len(files)]_vars
  /\ [][(catalog' # catalog \/ catalogWrites' > catalogWrites) =>
          /\ pc = "catalog"
          /\ catalogWrites = 0
          /\ catalogWrites' = 1
          /\ LevelsOf(kws) = options.sources]_vars
  /\ [](pc = "done" => catalogWrites = 1)

\* C8, its case: a run over two categories, the later one listed first, has
\* ended after a conversion failure and has written its catalog.
C8_Witness ==
  /\ pc = "done"
  /\ options.sources = <<"3", "2">>
  /\ CatalogLevels(catalog) = <<"3", "2">>
  /\ run_has_errors
  /\ catalogWrites = 1

\* C9 (as claimed). Whenever do_level is not running, on every way out of it,
\* the working directory is the one the program was started in.
C9_CwdRestored == ~(pc \in {"mtime", "exists", "read", "gc"}) => cwd = origDir

\* C10 (as claimed). When the listed file do_level turns to is gone, do_level
\* reports it, registers no Keyword, leaves the error flag alone and goes on
\* with the next file.
C10_MissingSource ==
  [][(pc \in {"mtime", "exists", "read"} /\ sources[Cur] = Absent /\ pc' # pc) =>
       /\ pc' \in {"mtime", "gc"}
       /\ idx' = idx + 1
       /\ log' = Append(log, Event("Does not exist", Cur.name))
       /\ level_keywords' = level_keywords
       /\ has_errors' = has_errors]_vars

\* The Keywords do_levels holds for category l.
KeywordsOf(l) == (CHOOSE e \in Range(kws) : e.level = l).keywords
\* The catalog has the configured namespace and, for the categories ds in
\* their order, one section each with the Keywords of the category as
\* name/target pairs in registration order and the two file globs.
CatalogIs(ds) ==
  /\ catalog.namespace = options.qhp_namespace
  /\ Len(catalog.sections) = Len(ds)
  /\ \A i \in 1..Len(ds) :
       LET sec == catalog.sections[i]
           ks == KeywordsOf(ds[i])
       IN /\ i <= Len(catalog.sections)
          /\ sec.filter_category = <<"man", ds[i]>>
          /\ Len(sec.keywords) = Len(ks)
          /\ \A j \in 1..Len(ks) :
               sec.keywords[j] = [name |-> ks[j].keyword, ref |-> ks[j].target]
          /\ sec.files = << <<"html", ds[i], "*.html">>,
                            <<"html", ds[i], "images", "*">> >>
Distinct(ds) == \A i, j \in 1..Len(ds) : ds[i] = ds[j] => i = j

\* C12 (as claimed). For any list of categories, the catalog a run has
\* written holds the namespace and one section per supplied category, in the
\* order supplied, each with exactly the Keywords registered for the category
\* and the two file globs.
C12_CatalogContent == pc = "done" => CatalogIs(options.sources)

\* C12 (amended). The same, for a list in which no category comes twice.
C12_CatalogContentAmended ==
  (pc = "done" /\ Distinct(options.sources)) => CatalogIs(options.sources)

\* C12, its case: a run over two different categories has written a catalog
\* whose section of category 2 lists an alias Keyword and a page Keyword.
C12_Witness ==
  /\ pc = "done"
  /\ Distinct(options.sources)
  /\ Len(catalog.sections) = 2
  /\ \E i \in 1..2 :
       /\ catalog.sections[i].filter_category = <<"man", "2">>
       /\ Len(catalog.sections[i].keywords) = 2
       /\ \E k \in Range(KeywordsOf("2")) : k.is_alias
       /\ \E k \in Range(KeywordsOf("2")) : ~k.is_alias

\* C13. A category's error flag is set exactly when a conversion of the
\* category exited non-zero, whatever aliases were skipped; the run-level
\* flag is the OR of the flags of the categories processed so far and stays
\* set once set; every listed file and every category is still processed;
\* and the summary suggests qhelpgenerator exactly when the flag is not set.
Failures(events) == SelectSeq(events, LAMBDA e : e.ev = "error running groff")
C13_ErrorFlags ==
  /\ [](pc = "ret" => /\ has_errors <=> Failures(log) # <<>>
                      /\ Len(log) = Len(files))
  /\ [](pc \in {"level", "catalog", "done"} => (run_has_errors <=> failed > 0))
  /\ [][(run_has_errors /\ runNo' = runNo) => run_has_errors']_vars
  /\ [](pc = "done" =>
          /\ \A i \in 1..Len(options.sources) :
               \E e \in Range(kws) : e.level = options.sources[i]
          /\ summary = "use qhelpgenerator" <=> ~run_has_errors)

\* C13, its case: a run has ended with the flag not set although it met an
\* alias line of neither syntax and an alias without a matching file.
C13_Witness ==
  /\ pc = "done"
  /\ ~run_has_errors
  /\ summary = "use qhelpgenerator"
  /\ sources[F("2", <<"n", "2">>)] # Absent
  /\ sources[F("2", <<"c", "2">>)] # Absent

\* file is <page>-<index>.<ext>: the page name, a hyphen, digits, a dot and
\* an extension of word characters.
HasImageForm(file, page) ==
  LET n == Len(page)
  IN /\ Len(file) >= n + 4
     /\ SubSeq(file, 1, n) = page
     /\ file[n + 1] = "-"
     /\ \E j \in (n + 2)..(Len(file) - 2) :
          /\ \A d \in (n + 2)..j : file[d] \in Digit
          /\ file[j + 1] = "."
          /\ \A e \in (j + 2)..Len(file) : file[e] \in WordChar
\* The page names of the non-alias Keywords of the category.
LivePages == {NameChars(k.keyword) : k \in {k \in Range(level_keywords) : ~k.is_alias}}

\* C15 (as claimed). The garbage collection of a category leaves in its
\* images directory exactly the entries named <page>-<index>.<ext> for a
\* page of a non-alias Keyword of this run, whatever characters the page
\* name holds.
C15_ImageCleanup ==
  [][(pc = "gc" /\ pc' = "ret") =>
       images'[level] =
         {file \in images[level] : \E page \in LivePages : HasImageForm(file, page)}]_vars

\* C17 (as claimed). Reading a source file that is there never raises,
\* whichever reader its extension selects: the step goes on to the next file.
C17_PermissiveDecoding ==
  [][(pc = "read" /\ sources[Cur] # Absent /\ pc' # pc) => pc' \in {"mtime", "gc"}]_vars

\* C18 (as claimed). A text that begins with the alias marker and has more
\* than one line, or whose one line is of neither syntax, is reported as a
\* not understood alias and skipped: groff is not invoked, no Keyword is
\* registered, the error flag is left alone and the run goes on.
C18_UnrecognizedAlias ==
  [][(/\ pc = "read" /\ sources[Cur] # Absent /\ pc' # pc
      /\ Content(Cur).type = "so"
      /\ (Content(Cur).lines > 1 \/ Content(Cur).form \notin {"path", "dotted"})) =>
       /\ pc' \in {"mtime", "gc"}
       /\ log' = Append(log, Event("not understood alias", SrcName(Cur.name)))
       /\ invoked' = invoked
       /\ level_keywords' = level_keywords
       /\ has_errors' = has_errors]_vars

\* C19. When groff exits non-zero for a page, an output file of that page
\* left by an earlier run is not touched by the failing step and not removed
\* by the garbage collection; when do_level returns for the first category
\* of a run the file is as it was before the run, unless another source of
\* the same page was rendered in this run.
FailedBases == {result_name(e.name, level) : e \in Range(Failures(log))}
Rendered(events, name) == \E e \in Range(events) : e.ev = "keyword" /\ e.name = name
RefShape(t, i, j, k, q) ==
  /\ t[i] = "<b>"
  /\ j >= i + 1 /\ \A h \in (i + 1)..j : t[h] \in WordTok
  /\ t[j + 1] = "</b>" /\ t[j + 2] = "("
  /\ k >= j + 3 /\ \A h \in (j + 3)..k : t[h] \in DigitTok
  /\ q \in {k, k + 1} /\ (q = k + 1 => t[q] = "p")
  /\ q + 1 <= Len(t) /\ t[q + 1] = ")"
Shapes(t, i) ==
  IF t[i] # "<b>" THEN {}
  ELSE {r \in [j : (i + 1)..Len(t), k : (i + 4)..Len(t), q : (i + 4)..Len(t)] :
          RefShape(t, i, r.j, r.k, r.q)}
\* The text with every such occurrence wrapped in its link, and the pairs
\* of the occurrences in their order.
RECURSIVE Expected(_, _)
Expected(t, i) ==
  IF i > Len(t) THEN [text |-> <<>>, refs |-> <<>>]
  ELSE IF Shapes(t, i) = {}
       THEN LET rest == Expected(t, i + 1)
            IN [text |-> <<t[i]>> \o rest.text, refs |-> rest.refs]
       ELSE LET r == CHOOSE r \in Shapes(t, i) : TRUE
                rest == Expected(t, r.q + 2)
                name == SubSeq(t, i + 1, r.j)
                cat == SubSeq(t, r.j + 3, r.q)
            IN [text |-> <<"<a href=\"../html.">> \o cat \o <<"/">> \o name
                           \o <<".html\">">> \o SubSeq(t, i, r.q + 1) \o <<"</a>">>
                           \o rest.text,
                refs |-> << <<cat, name>> >> \o rest.refs]
\* The text without the link tags put around the occurrences.
RECURSIVE Unlinked(_, _)
Unlinked(t, i) ==
  IF i > Len(t) THEN <<>>
  ELSE IF t[i] = "</a>" THEN Unlinked(t, i + 1)
  ELSE IF t[i] = "<a href=\"../html."
       THEN Unlinked(t, 1 + (CHOOSE h \in i..Len(t) :
                               t[h] = ".html\">" /\ \A g \in i..(h - 1) : t[g] # ".html\">"))
  ELSE <<t[i]>> \o Unlinked(t, i + 1)

\* C11. In the text written for a page, each bold word followed at once by a
\* parenthesized category (digits, then an optional p) is wrapped, as it
\* stands, in a link to ../html.<category>/<name>.html; the reference list
\* has one (category, name) pair per occurrence, in their order, duplicates
\* kept; the rest of the text is unchanged.
C11_CrossReferences ==
  tpc = "written" =>
    LET e == Expected(retitled, 1)
    IN /\ html_data = e.text
       /\ cross_references = e.refs
       /\ Unlinked(html_data, 1) = retitled

\* C11, its case: a text has been written in which the same page is
\* referred to twice.
C11_Witness ==
  /\ tpc = "written"
  /\ Len(cross_references) = 2
  /\ cross_references[1] = cross_references[2]
  /\ cross_references[1] = << <<"2">>, <<"x">> >>
  /\ Cardinality({i \in 1..Len(retitled) : retitled[i] = "<b>"}) = 2

\* The first title element of t: its text, and the title-opens after its open tag.
Opens(t) == {i \in 1..Len(t) : t[i] = TITLE}
FirstOpen(t) == CHOOSE i \in Opens(t) : \A h \in Opens(t) : i <= h
FirstClose(t) ==
  LET cs == {i \in (FirstOpen(t) + 1)..Len(t) : t[i] = TITLE_END}
  IN IF cs = {} THEN Len(t) + 1 ELSE CHOOSE i \in cs : \A h \in cs : i <= h
FirstTitleText(t) ==
  IF Opens(t) = {} THEN <<>>
  ELSE SelectSeq(SubSeq(t, FirstOpen(t) + 1, FirstClose(t) - 1), LAMBDA c : c \notin Tags)
LaterOpens(t) == IF Opens(t) = {} THEN {} ELSE Opens(t) \ {FirstOpen(t)}

\* C14 (as claimed). For any text whose first title element is closed, also
\* one with more title elements after it, line 271 makes exactly one
\* substitution, that of the title element's text by its
\* lowercased text followed by " | man<category>", and changes nothing else.
C14_TitleRewrite ==
  (tpc \in {"sub", "written"} /\ Opens(stdout) # {} /\ FirstClose(stdout) <= Len(stdout)) =>
    LET old == title_tag(FirstTitleText(stdout))
        new == title_tag(LowerAll(FirstTitleText(stdout)) \o <<" ", "|", " ", "m", "a", "n", level>>)
    IN \E i \in 1..Len(stdout) :
         /\ StartsAt(stdout, i, old)
         /\ retitled = SubSeq(stdout, 1, i - 1) \o new
                         \o SubSeq(stdout, i + Len(old), Len(stdout))

\* C16 (as claimed). For every sequence of tags and text fed to TitleFinder,
\* its title is the text of the first title element, and every title-open
\* after the first has left the title alone and printed a warning.
C16_FirstTitleKept ==
  tpc \in {"sub", "written"} =>
    /\ title = FirstTitleText(stdout)
    /\ warnings = Cardinality(LaterOpens(stdout))

====
